---------------------------- MODULE Spec2Model ----------------------------
(***************************************************************************)
(* The rj-MCMC sampler loop of geobipy's Inference1D: initialize(),         *)
(* accept_reject(), update(), the window plot and the loop test of infer(). *)
(*                                                                         *)
(* Log-probabilities are integers; -inf is the value NegInf.  Models and    *)
(* datapoints are values named by small integers.  The burn-in thresholds   *)
(* of update() (10000 iterations, 1000 target hits) are scaled down to      *)
(* BurnInMinIteration and TargetHitsNeeded so that a chain can burn in      *)
(* within a run that TLC can enumerate.                                     *)
(*                                                                         *)
(* Further specifications share the module: InferSpec, the loop followed    *)
(* by the end of infer(); HdfSpec, the result file written by writeHdf()    *)
(* and read by fromHdf(); ParametersSpec, the construction of               *)
(* user_parameters from the keys of an options file; HalfSpaceSpec, the     *)
(* bisection of FdemDataPoint.FindBestHalfSpace; KernelSpec, forward() and  *)
(* sensitivity() of FdemDataPoint; MeshSpec, the percentiles and credible   *)
(* intervals of Mesh.                                                       *)
(***************************************************************************)
EXTENDS Integers, Sequences, FiniteSets, TLC

\* ------------------------------------------------------------------ bounds
MaxChains == 5            \* largest n_markov_chains of a run
MaxWindow == 2            \* largest update_plot_every of a run
MaxModel == 2             \* models are 0..MaxModel; MaxModel is out of support
BurnInMinIteration == 2   \* update(): "iteration > 10000", scaled
TargetHitsNeeded == 1     \* update(): "_n_target_hits > 1000", scaled
NumActive == 4            \* sum(datapoint.active): the number of active channels
MaxFiducial == 3          \* fiducials are 1..MaxFiducial
MaxIterations == 4         \* FindBestHalfSpace: maxIterations=100, scaled
MaxMisfit == 4             \* largest data misfit of a half space
MaxSystems == 2            \* subsystems of one datapoint
MaxFrequencies == 3        \* frequencies of one subsystem
MaxCells == 2              \* layers of the model
MaxBins == 3               \* bins of the mesh along the axis
MaxCount == 2              \* largest count of one bin
MaxMissing == 2           \* most required keys an options file leaves out

\* -------------------------------------------------------------- constants
NegInf == -1000           \* numpy's -inf
InitialChiSquaredFit == 100
NaN == -1                 \* numpy's nan, the fill value of the result file

Models == 0..MaxModel
\* two datapoints in the support of the priors, OutOfSupport outside it
OutOfSupport == {2}
Datapoints == {0, 1} \cup OutOfSupport
\* the configured multiplier step when it is engaged
MultiplierSteps == {2}
ChainLengths == (MaxChains - 1)..MaxChains
Windows == 1..MaxWindow
\* values norm(h_pdf - pdf)/norm(pdf) can take: below 1, and not
ChiSquaredFits == {0, 1}

Abs(x) == IF x < 0 THEN -x ELSE x

\* float addition with -inf absorbing
Plus(a, b) == IF a = NegInf \/ b = NegInf THEN NegInf ELSE a + b

\* numpy.isclose(a, b, rtol=1e-1, atol=1e-2): |a-b| <= atol + rtol*|b|
IsClose(a, b) == 100 * Abs(a - b) <= 1 + 10 * Abs(b)

\* --------------------------------------------- the model and the datapoint
\* Model.probability(solve_parameter, solve_gradient): the log-prior of a
\* model, -inf outside the prior's support.
ModelProbability(m) == IF m = MaxModel THEN NegInf ELSE -m

\* DataPoint.probability: the log-prior of (height, relative, additive error).
DatapointProbability(d) == IF d \in OutOfSupport THEN NegInf ELSE -d

\* DataPoint.dataMisfit() after forward(model).
DataMisfit(m, d) == NumActive * (1 + ((m + d) % 3))

\* DataPoint.likelihood(log=True): -1/2 misfit (the normalisation dropped).
LogLikelihood(m, d) == -(DataMisfit(m, d) \div 2)

VARIABLES
    \* configuration (Inference1D.__init__)
    ignore_likelihood, interactive_plot, n_markov_chains, update_plot_every,
    has_prior,          \* datapoint.relative_error.hasPrior
    has_kwargs,         \* whether the instance carries a kwargs attribute
    kwargs_multiplier,  \* kwargs['multiplier']
    \* run state
    pc, model, datapoint, data_misfit, prior, likelihood, posterior,
    burned_in, burned_in_iteration, iteration, n_target_hits,
    relative_chi_squared_fit, multiplier, accepted,
    best_model, best_datapoint, best_posterior, best_iteration,
    model_posterior,      \* samples in the model's posterior accumulators
    datapoint_posterior,  \* samples in the datapoint's posterior accumulators
    misfit_posterior,     \* samples in the posterior of the misfit trace
    acceptance_written,   \* number of acceptance_rate entries written
    failed,               \* infer()'s local: "True", "False" or "None"
    \* history
    peak_posterior,       \* largest posterior recorded by an update() of the run
    peak_since_reset,     \* the same since initialize() or the burn-in transition
    \* the result file (createHdf, writeHdf, fromHdf)
    fiducials,            \* parent['data/fiducial']
    hdf_file,             \* the record of every index: dataset name -> value
    hdf_writers,          \* per index, the fiducials whose writeHdf() wrote it
    held,                 \* per fiducial written, what its Inference1D held
    read_back,            \* per fiducial read, what fromHdf() returned
    \* user_parameters
    options,              \* the keyword arguments of user_parameters(**options)
    construction,         \* "pending", "returned" or "raised"
    user_parameters,      \* the dict under construction: key -> value
    missing_named,        \* the list the ValueError's message names
    \* FdemDataPoint.FindBestHalfSpace
    percentThreshold,     \* the keyword argument, in percent
    c0, c1, cnew,         \* log10 conductivities, in units of the search grid
    PhiD1, PhiD2, PhiDnew,
    search_i,             \* the local i
    par,                  \* model._par[0], as its log10 on the search grid
    evaluated,            \* log10 conductivity -> misfit of every forward()
    search,               \* "none", "searching" or "returned"
    \* FdemDataPoint.forward and FdemDataPoint.sensitivity
    system,               \* per subsystem, its number of frequencies
    nCells,               \* mod.nCells
    last_edge_is_inf,     \* np.isinf(mod.edges[-1])
    predictedData,        \* self._predictedData
    J,                    \* self.J: per channel, its row of nCells entries
    forward_result,       \* "none", "returned" or the error raised
    sensitivity_result,   \* "none", "returned" or the error raised
    \* Mesh._percentile, Mesh._credible_intervals, Mesh._credible_range
    values,               \* the counts of the bins along the axis
    percent,              \* the argument percent
    mesh_call,            \* "none", "pending" or the method that returned
    selected,             \* the bin indices i, one per percentile asked for
    interval              \* what the method returned

config == <<ignore_likelihood, interactive_plot, n_markov_chains,
            update_plot_every, has_prior, has_kwargs, kwargs_multiplier>>
current == <<model, datapoint, data_misfit, prior, likelihood, posterior>>
best == <<best_model, best_datapoint, best_posterior, best_iteration>>
burn == <<burned_in, burned_in_iteration, n_target_hits>>
accumulators == <<model_posterior, datapoint_posterior, misfit_posterior>>
history == <<peak_posterior, peak_since_reset>>
hdf == <<fiducials, hdf_file, hdf_writers, held, read_back>>
\* what the sampler loop never touches
parameters == <<options, construction, user_parameters, missing_named>>
halfspace == <<percentThreshold, c0, c1, cnew, PhiD1, PhiD2, PhiDnew,
               search_i, par, evaluated, search>>
kernel == <<system, nCells, last_edge_is_inf, predictedData, J,
            forward_result, sensitivity_result>>
mesh == <<values, percent, mesh_call, selected, interval>>
\* the functions called on their own
functions == <<halfspace, kernel, mesh>>
outside == <<hdf, parameters, functions>>
\* the state of the sampler loop
sampler == <<config, current, best, burn, accumulators, history, pc,
             iteration, relative_chi_squared_fit, multiplier, accepted,
             acceptance_written, failed>>
vars == <<sampler, outside>>

\* lengths of the arrays initialize() allocates
MisfitLength == 2 * n_markov_chains
\* mutant: one entry per window of n_markov_chains iterations
AcceptanceLength_OnePerWindow == n_markov_chains \div update_plot_every

AcceptanceLength == 2 * (n_markov_chains \div update_plot_every)

Max(a, b) == IF a >= b THEN a ELSE b

\* --------------------------------------------------------------- initialize
InitialLikelihood(m, d) == IF ignore_likelihood THEN 1 ELSE LogLikelihood(m, d)

\* mutant: initialize() always leaves the chain not burned in
InitiallyBurnedIn_Never == FALSE

\* burned_in is set to True, and back to False only when the likelihood is used
InitiallyBurnedIn == ignore_likelihood

\* the Inference1D instance as __init__() and initialize() leave it
Initialized ==
    /\ ignore_likelihood \in BOOLEAN
    /\ interactive_plot \in BOOLEAN
    /\ n_markov_chains \in ChainLengths
    /\ update_plot_every \in Windows
    /\ has_prior \in BOOLEAN
    /\ has_kwargs \in BOOLEAN
    /\ kwargs_multiplier \in MultiplierSteps
    /\ (has_prior => has_kwargs)
    \* a chain that starts burned in never reads hasPrior or kwargs
    /\ (ignore_likelihood => has_prior)
    /\ model \in Models \ {MaxModel}
    /\ datapoint = 0
    /\ data_misfit = DataMisfit(model, datapoint)
    /\ prior = Plus(ModelProbability(model), DatapointProbability(datapoint))
    /\ burned_in = InitiallyBurnedIn
    /\ burned_in_iteration = IF ignore_likelihood THEN n_markov_chains ELSE 0
    /\ likelihood = InitialLikelihood(model, datapoint)
    /\ posterior = Plus(likelihood, prior)
    /\ iteration = 0
    /\ n_target_hits = 0
    /\ relative_chi_squared_fit = InitialChiSquaredFit
    /\ multiplier = 1
    /\ accepted = 0
    /\ acceptance_written = 0
    /\ best_model = model
    /\ best_datapoint = datapoint
    /\ best_posterior = posterior
    /\ best_iteration = 0
    /\ model_posterior = 0
    /\ datapoint_posterior = 0
    /\ misfit_posterior = 0
    /\ failed = "False"
    /\ peak_posterior = posterior
    /\ peak_since_reset = posterior
    /\ pc = "accept_reject"

\* no result file is open
HdfClosed ==
    /\ fiducials = <<>>
    /\ hdf_file = <<>>
    /\ hdf_writers = <<>>
    /\ held = <<>>
    /\ read_back = <<>>

\* no user_parameters is being constructed
NoConstruction ==
    /\ options = <<>>
    /\ construction = "returned"
    /\ user_parameters = <<>>
    /\ missing_named = <<>>

\* no half-space search is running
NoSearch ==
    /\ percentThreshold = 0
    /\ c0 = 0
    /\ c1 = 0
    /\ cnew = 0
    /\ PhiD1 = 0
    /\ PhiD2 = 0
    /\ PhiDnew = 0
    /\ search_i = 0
    /\ par = 0
    /\ evaluated = <<>>
    /\ search = "none"

\* no datapoint is forward modelled
NoForward ==
    /\ system = <<>>
    /\ nCells = 0
    /\ last_edge_is_inf = TRUE
    /\ predictedData = <<>>
    /\ J = <<>>
    /\ forward_result = "none"
    /\ sensitivity_result = "none"

\* no percentile is asked of a mesh
NoPercentile ==
    /\ values = <<>>
    /\ percent = 0
    /\ mesh_call = "none"
    /\ selected = <<>>
    /\ interval = <<>>

\* none of the functions checked on their own has been called
NoCalls == NoSearch /\ NoForward /\ NoPercentile

\* one Inference1D, initialized and not running
Idle ==
    /\ Initialized
    /\ ~ignore_likelihood
    /\ ~interactive_plot
    /\ has_prior
    /\ n_markov_chains = MaxChains
    /\ update_plot_every = MaxWindow
    /\ model = 1

Init == Initialized /\ HdfClosed /\ NoConstruction /\ NoCalls


\* ------------------------------------------------------------ accept_reject
\* The candidate's prior: the datapoint's, then the model's added to it.
CandidatePrior(m1, d1) == Plus(DatapointProbability(d1), ModelProbability(m1))

\* The two early returns: the datapoint prior, then the summed prior, is -inf.
EarlyRejection(m1, d1) ==
    \/ DatapointProbability(d1) = NegInf
    \/ CandidatePrior(m1, d1) = NegInf

CandidateLikelihood(m1, d1) ==
    IF ignore_likelihood THEN 1 ELSE LogLikelihood(m1, d1)

\* mutant: the candidate's posterior without its likelihood
CandidatePosterior_PriorOnly(m1, d1) == CandidatePrior(m1, d1)

\* posterior1 = prior1 + likelihood1
CandidatePosterior(m1, d1) ==
    Plus(CandidatePrior(m1, d1), CandidateLikelihood(m1, d1))

\* prior_ratio + likelihood_ratio + proposal_ratio
LogAcceptanceRatio(m1, d1, proposal_ratio) ==
    (CandidatePrior(m1, d1) - prior)
        + (CandidateLikelihood(m1, d1) - likelihood) + proposal_ratio

\* acceptance_probability > prng.uniform(), the draw being in [0, 1): a ratio
\* of at least 0 gives a probability of at least 1 and is always accepted.
AcceptanceDecisions(log_acceptance_ratio) ==
    IF log_acceptance_ratio >= 0 THEN {TRUE} ELSE BOOLEAN

\* model.perturb(observation) raises.  The handler prints
\* observation.line_number: observation is None under ignore_likelihood, so
\* the handler itself raises there; otherwise accept_reject() returns True.
PerturbRaises ==
    /\ pc = "accept_reject"
    /\ pc' = IF ignore_likelihood THEN "crashed" ELSE "update"
    /\ failed' = IF ignore_likelihood THEN failed ELSE "True"
    /\ UNCHANGED <<outside, config, current, best, burn, accumulators, history,
                   iteration, relative_chi_squared_fit, multiplier, accepted,
                   acceptance_written>>

\* "if (prior1 == -inf): return": accept_reject() returns None.
EarlyReject ==
    /\ pc = "accept_reject"
    /\ {c \in Models \X Datapoints : EarlyRejection(c[1], c[2])} # {}
    /\ pc' = "update"
    /\ failed' = "None"
    /\ UNCHANGED <<outside, config, current, best, burn, accumulators, history,
                   iteration, relative_chi_squared_fit, multiplier, accepted,
                   acceptance_written>>

\* mutant: the accepted candidate's datapoint is not stored
AcceptCandidate_KeepsDatapoint(m1, d1) ==
    /\ accepted' = accepted + 1
    /\ data_misfit' = DataMisfit(m1, d1)
    /\ prior' = CandidatePrior(m1, d1)
    /\ likelihood' = CandidateLikelihood(m1, d1)
    /\ posterior' = Plus(CandidatePrior(m1, d1), CandidateLikelihood(m1, d1))
    /\ model' = m1
    /\ datapoint' = datapoint

\* The candidate replaces the current state (the "if (accepted):" block).
AcceptCandidate(m1, d1) ==
    /\ accepted' = accepted + 1
    /\ data_misfit' = DataMisfit(m1, d1)
    /\ prior' = CandidatePrior(m1, d1)
    /\ likelihood' = CandidateLikelihood(m1, d1)
    /\ posterior' = CandidatePosterior(m1, d1)
    /\ model' = m1
    /\ datapoint' = d1

\* Some uniform draw accepts / rejects the candidate (m1, d1).
MayAccept(m1, d1) ==
    {proposal_ratio \in -1..1 :
        TRUE \in AcceptanceDecisions(
                    LogAcceptanceRatio(m1, d1, proposal_ratio))} # {}

MayReject(m1, d1) ==
    {proposal_ratio \in -1..1 :
        FALSE \in AcceptanceDecisions(
                     LogAcceptanceRatio(m1, d1, proposal_ratio))} # {}

\* accept_reject() reaches the uniform draw and the candidate is accepted.
Accept ==
    /\ pc = "accept_reject"
    /\ \E m1 \in Models, d1 \in Datapoints :
         /\ ~EarlyRejection(m1, d1)
         /\ MayAccept(m1, d1)
         /\ AcceptCandidate(m1, d1)
    /\ pc' = "update"
    /\ failed' = "False"
    /\ UNCHANGED <<outside, config, best, burn, accumulators, history, iteration,
                   relative_chi_squared_fit, multiplier, acceptance_written>>

\* accept_reject() reaches the uniform draw and the candidate is dropped:
\* nothing of the current state is assigned.
Reject ==
    /\ pc = "accept_reject"
    /\ {c \in Models \X Datapoints :
            ~EarlyRejection(c[1], c[2]) /\ MayReject(c[1], c[2])} # {}
    /\ pc' = "update"
    /\ failed' = "False"
    /\ UNCHANGED <<outside, config, current, best, burn, accumulators, history,
                   iteration, relative_chi_squared_fit, multiplier, accepted,
                   acceptance_written>>

AcceptReject == PerturbRaises \/ EarlyReject \/ Accept \/ Reject

\* ------------------------------------------------------------------- update
\* "self.iteration += 1"
NextIteration == iteration + 1

\* data_misfit_v[iteration - 1] on an array of 2 * n_markov_chains entries
MisfitIndexError == NextIteration - 1 >= MisfitLength

\* mutant: the minimum iteration of the burn-in tests dropped
PastMinimumIteration_Always == NextIteration > 0

\* "self.iteration > 10000", the first operand of both burn-in tests
PastMinimumIteration == NextIteration > BurnInMinIteration

\* isclose(data_misfit, multiplier * target_misfit) past the minimum iteration
TargetHit ==
    /\ ~burned_in
    /\ PastMinimumIteration
    /\ IsClose(data_misfit, multiplier * NumActive)

HitsAfter == IF TargetHit THEN n_target_hits + 1 ELSE n_target_hits

\* mutant: TargetHitsNeeded hits are enough
BurnInDeclared_AtLeast ==
    /\ ~burned_in
    /\ \/ PastMinimumIteration /\ relative_chi_squared_fit < 1
       \/ PastMinimumIteration /\ HitsAfter >= TargetHitsNeeded

\* the test of the burn-in block, reached only while not burned in
BurnInDeclared ==
    /\ ~burned_in
    /\ \/ PastMinimumIteration /\ relative_chi_squared_fit < 1
       \/ PastMinimumIteration /\ HitsAfter > TargetHitsNeeded

BurnedInAfter == burned_in \/ BurnInDeclared

\* mutant: the burn-in iteration is assigned by every burned-in update()
BurnedInIterationAfter_EveryUpdate ==
    IF BurnedInAfter THEN NextIteration ELSE burned_in_iteration

BurnedInIterationAfter ==
    IF BurnInDeclared THEN NextIteration ELSE burned_in_iteration

\* best_posterior as the burn-in block leaves it
BestPosteriorAtBurnIn == IF BurnInDeclared THEN posterior ELSE best_posterior

\* mutant: the comparison of the best record reversed
NewBest_Reversed == posterior < BestPosteriorAtBurnIn

\* "if (self.posterior > self.best_posterior):"
NewBest == posterior > BestPosteriorAtBurnIn

BestPosteriorAfter == IF NewBest THEN posterior ELSE BestPosteriorAtBurnIn

BestRecorded == BurnInDeclared \/ NewBest

\* "(iteration > 0) and (mod(iteration, update_plot_every) == 0)"
WindowBoundary ==
    NextIteration > 0 /\ NextIteration % update_plot_every = 0

\* int32(iteration / update_plot_every) - 1
AcceptanceIndex == (NextIteration \div update_plot_every) - 1

AcceptanceIndexError == WindowBoundary /\ AcceptanceIndex >= AcceptanceLength

\* mutant: the multiplier is engaged whether or not the relative error has a prior
MultiplierEngaged_IgnoresPrior ==
    /\ NextIteration % update_plot_every = 0
    /\ ~BurnedInAfter

\* acceptance_percent = 100.0 * accepted / update_plot_every, as the exact
\* fraction <<numerator, denominator>>
AcceptancePercent == <<100 * accepted, update_plot_every>>

\* mutant: the accepted counter is not reset at a window boundary
AcceptedAfter_NoReset == accepted

\* "self.accepted = 0" at a window boundary
AcceptedAfter == IF WindowBoundary THEN 0 ELSE accepted

\* "not self.burned_in and not self.datapoint.relative_error.hasPrior"
MultiplierEngaged ==
    /\ NextIteration % update_plot_every = 0
    /\ ~BurnedInAfter
    /\ ~has_prior

\* self.kwargs is read; __init__ never assigns it
KwargsError == MultiplierEngaged /\ ~has_kwargs

MultiplierAfter ==
    IF MultiplierEngaged THEN multiplier * kwargs_multiplier ELSE multiplier

\* mutant: update_posteriors() without the reset_posteriors() of the transition
AccumulatedAfter_NoReset(count) == count + 1

\* reset_posteriors() at the burn-in transition, then update_posteriors()
AccumulatedAfter(count) == (IF BurnInDeclared THEN 0 ELSE count) + 1

\* the burn-in block and the best record: lines 597 to 620
BurnInAndBest ==
    /\ n_target_hits' = HitsAfter
    /\ burned_in' = BurnedInAfter
    /\ burned_in_iteration' = BurnedInIterationAfter
    /\ best_posterior' = BestPosteriorAfter
    /\ best_iteration' = IF BestRecorded THEN NextIteration ELSE best_iteration
    /\ best_model' = IF BestRecorded THEN model ELSE best_model
    /\ best_datapoint' = IF BestRecorded THEN datapoint ELSE best_datapoint
    /\ misfit_posterior' = IF BurnInDeclared THEN 0 ELSE misfit_posterior
    /\ peak_posterior' = Max(peak_posterior, posterior)
    /\ peak_since_reset' =
           IF BurnInDeclared THEN posterior ELSE Max(peak_since_reset, posterior)

\* the misfit write raises IndexError
UpdateMisfitIndexError ==
    /\ pc = "update"
    /\ MisfitIndexError
    /\ iteration' = NextIteration
    /\ pc' = "crashed"
    /\ UNCHANGED <<outside, config, current, best, burn, accumulators, history,
                   relative_chi_squared_fit, multiplier, accepted,
                   acceptance_written, failed>>

\* the acceptance_rate write raises IndexError
UpdateAcceptanceIndexError ==
    /\ pc = "update"
    /\ ~MisfitIndexError
    /\ AcceptanceIndexError
    /\ iteration' = NextIteration
    /\ BurnInAndBest
    /\ model_posterior' = IF BurnInDeclared THEN 0 ELSE model_posterior
    /\ datapoint_posterior' = IF BurnInDeclared THEN 0 ELSE datapoint_posterior
    /\ pc' = "crashed"
    /\ UNCHANGED <<outside, config, current, relative_chi_squared_fit, multiplier,
                   accepted, acceptance_written, failed>>

\* self.kwargs raises AttributeError
UpdateKwargsError ==
    /\ pc = "update"
    /\ ~MisfitIndexError
    /\ ~AcceptanceIndexError
    /\ KwargsError
    /\ iteration' = NextIteration
    /\ BurnInAndBest
    /\ accepted' = 0
    /\ acceptance_written' = acceptance_written + 1
    /\ model_posterior' = IF BurnInDeclared THEN 0 ELSE model_posterior
    /\ datapoint_posterior' = IF BurnInDeclared THEN 0 ELSE datapoint_posterior
    /\ pc' = "crashed"
    /\ UNCHANGED <<outside, config, current, relative_chi_squared_fit, multiplier,
                   failed>>

UpdateReturns ==
    /\ pc = "update"
    /\ ~MisfitIndexError
    /\ ~AcceptanceIndexError
    /\ ~KwargsError
    /\ iteration' = NextIteration
    /\ BurnInAndBest
    /\ accepted' = AcceptedAfter
    /\ acceptance_written' =
           IF WindowBoundary THEN acceptance_written + 1 ELSE acceptance_written
    /\ multiplier' = MultiplierAfter
    /\ model_posterior' = AccumulatedAfter(model_posterior)
    /\ datapoint_posterior' = AccumulatedAfter(datapoint_posterior)
    /\ pc' = "plot"
    /\ UNCHANGED <<outside, config, current, relative_chi_squared_fit, failed>>

Update ==
    \/ UpdateMisfitIndexError
    \/ UpdateAcceptanceIndexError
    \/ UpdateKwargsError
    \/ UpdateReturns

\* --------------------------------------------- plot_posteriors, from infer()
\* mutant: the plot is drawn whether or not the run is interactive
PlotDue_AnyRun == iteration % update_plot_every = 0

\* plot_posteriors(increment=update_plot_every) draws when the iteration is a
\* multiple of the increment
PlotDue == interactive_plot /\ iteration % update_plot_every = 0

\* _plotMisfitVsIteration reads iRange[iteration], of 2 * n_markov_chains entries
PlotIndexError == iteration >= MisfitLength

PlotNothing ==
    /\ pc = "plot"
    /\ ~PlotDue
    /\ pc' = "test"
    /\ UNCHANGED <<outside, config, current, best, burn, accumulators, history,
                   iteration, relative_chi_squared_fit, multiplier, accepted,
                   acceptance_written, failed>>

PlotRaises ==
    /\ pc = "plot"
    /\ PlotDue
    /\ PlotIndexError
    /\ pc' = "crashed"
    /\ UNCHANGED <<outside, config, current, best, burn, accumulators, history,
                   iteration, relative_chi_squared_fit, multiplier, accepted,
                   acceptance_written, failed>>

\* The posterior of the misfit trace is reset while the chain is not burned
\* in, then receives the misfits of the last window;
\* relative_chi_squared_fit = norm(h_pdf - pdf) / norm(pdf)
PlotMisfit ==
    /\ pc = "plot"
    /\ PlotDue
    /\ ~PlotIndexError
    /\ misfit_posterior' =
           (IF burned_in THEN misfit_posterior ELSE 0) + update_plot_every
    /\ relative_chi_squared_fit' \in ChiSquaredFits
    /\ pc' = "test"
    /\ UNCHANGED <<outside, config, current, best, burn, model_posterior,
                   datapoint_posterior, history, iteration, multiplier,
                   accepted, acceptance_written, failed>>

PlotPosteriors == PlotNothing \/ PlotRaises \/ PlotMisfit

\* ------------------------------------------------- the loop test of infer()
\* mutant: only False counts as not failed ("failed is False")
NotFailed_OnlyFalse == failed = "False"

\* Python's "not failed": None and False are both falsy
NotFailed == failed # "True"

\* mutant: the loop test without "not failed"
GoBurnedIn_IgnoresFailed ==
    iteration <= n_markov_chains + burned_in_iteration

\* "Go = not failed and (iteration <= n_markov_chains + burned_in_iteration)"
GoBurnedIn ==
    NotFailed /\ iteration <= n_markov_chains + burned_in_iteration

\* mutant: the not-burned-in bound made inclusive
Go_Inclusive ==
    IF NotFailed /\ ~burned_in
    THEN iteration <= n_markov_chains
    ELSE GoBurnedIn

\* "if (not failed) and (not self.burned_in): Go = iteration < n_markov_chains"
Go ==
    IF NotFailed /\ ~burned_in
    THEN iteration < n_markov_chains
    ELSE GoBurnedIn

\* "if not Go: failed = True" inside the not-burned-in branch
FailedAfterTest ==
    IF NotFailed /\ ~burned_in /\ ~Go THEN "True" ELSE failed

LoopTest ==
    /\ pc = "test"
    /\ pc' = IF Go THEN "accept_reject" ELSE "done"
    /\ failed' = FailedAfterTest
    /\ UNCHANGED <<outside, config, current, best, burn, accumulators, history,
                   iteration, relative_chi_squared_fit, multiplier, accepted,
                   acceptance_written>>

Next == AcceptReject \/ Update \/ PlotPosteriors \/ LoopTest

Spec == Init /\ [][Next]_vars

\* -------------------------------------------------- infer(), after its loop
\* save_hdf5 is an option of the constructor that the loop never reads; the
\* constructor asserts "interactive_plot or save_hdf5".  save_png keeps its
\* default, False.
SaveHdf5Options == {save_hdf5 \in BOOLEAN : interactive_plot \/ save_hdf5}

\* "if self.save_hdf5: self.writeHdf(hdf_file_handle)": writeHdf() raises
\* NameError after its scalar writes (see WriteHdf), so infer() is aborted.
InferWriteHdfRaises ==
    /\ pc = "done"
    /\ TRUE \in SaveHdf5Options
    /\ pc' = "crashed"
    /\ UNCHANGED <<outside, config, current, best, burn, accumulators, history,
                   iteration, relative_chi_squared_fit, multiplier, accepted,
                   acceptance_written, failed>>

\* "return failed", reached when nothing is saved
InferReturns ==
    /\ pc = "done"
    /\ FALSE \in SaveHdf5Options
    /\ pc' = "returned"
    /\ UNCHANGED <<outside, config, current, best, burn, accumulators, history,
                   iteration, relative_chi_squared_fit, multiplier, accepted,
                   acceptance_written, failed>>

InferNext == Next \/ InferWriteHdfRaises \/ InferReturns

InferSpec == Init /\ [][InferNext]_vars

\* ---------------------------------------------------------- the result file
\* parent['data/fiducial'] as the set-up of a result file leaves it: the
\* fiducials of its datapoints in increasing order, one index each.
FiducialFiles ==
    {f \in UNION {[1..k -> 1..MaxFiducial] : k \in 1..MaxFiducial} :
        \A i, j \in DOMAIN f : i < j => f[i] < f[j]}

\* numpy's searchsorted(a, v), side='left', on a sorted array: the 0-based
\* position before which v would be inserted
SearchSorted(a, v) == Cardinality({k \in DOMAIN a : a[k] < v})

\* mutant: the position found is halved
RecordIndex_Halved(f) == SearchSorted(fiducials, f) \div 2

\* "index = fiducials.searchsorted(self.datapoint.fiducial)"
RecordIndex(f) == SearchSorted(fiducials, f)

\* the datasets createHdf() creates with one entry per index, at their fill
\* values
CreatedRecord ==
    [iteration |-> NaN, burned_in_iteration |-> NaN, best_iteration |-> NaN,
     burned_in |-> FALSE, multiplier |-> NaN, acceptance_rate |-> NaN,
     phids |-> NaN, data |-> NaN, model |-> NaN]

\* What an Inference1D holds when infer() has left its loop at
\* n_markov_chains iterations without burn-in: the chain started at
\* (best_model, datapoint 0), which stayed its best state, and moved to
\* (model 1, datapoint d) in its second iteration.
CompletedRun(bm, d) ==
    [iteration |-> n_markov_chains,
     burned_in_iteration |-> 0,
     best_iteration |-> 0,
     burned_in |-> FALSE,
     multiplier |-> 1,
     model |-> 1,
     datapoint |-> d,
     best_model |-> bm,
     best_datapoint |-> 0,
     data_misfit_v |->
         [k \in 1..MisfitLength |->
             IF k = 1 THEN DataMisfit(bm, 0)
             ELSE IF k <= n_markov_chains THEN DataMisfit(1, d) ELSE 0],
     acceptance_rate |->
         [k \in 1..AcceptanceLength |->
             IF k = 1 THEN 100
             ELSE IF k <= n_markov_chains \div update_plot_every THEN 0
             ELSE NaN]]

CompletedRuns == {CompletedRun(bm, d) : bm \in {0, 1}, d \in {0, 1}}

\* a function extended or overwritten at one argument
Extended(f, x, v) == [y \in DOMAIN f \cup {x} |-> IF y = x THEN v ELSE f[y]]

\* writeHdf(parent) of the Inference1D holding run for the datapoint of
\* fiducial f: the index is resolved, the five scalars are stored, and the
\* next statement reads the names hdfFile and i, which writeHdf() does not
\* define: NameError.  Nothing after it is written.
WriteHdf(f, run) ==
    /\ f \notin DOMAIN held
    /\ hdf_file' =
           [hdf_file EXCEPT ![RecordIndex(f) + 1] =
               [@ EXCEPT !.iteration = run.iteration,
                         !.burned_in_iteration = run.burned_in_iteration,
                         !.best_iteration = run.best_iteration,
                         !.burned_in = run.burned_in,
                         !.multiplier = run.multiplier]]
    /\ hdf_writers' =
           [hdf_writers EXCEPT ![RecordIndex(f) + 1] = @ \cup {f}]
    /\ held' = Extended(held, f, run)
    /\ UNCHANGED <<sampler, parameters, functions, fiducials, read_back>>

WriteHdfAny ==
    \E k \in DOMAIN fiducials, run \in CompletedRuns :
        WriteHdf(fiducials[k], run)

\* the keys of the result file fromHdf() can read
DatasetKeys == DOMAIN CreatedRecord \cup {"n_markov_chains", "update_plot_every"}

\* the attributes fromHdf() assigns from the record at an index; the best
\* model and datapoint are the model and datapoint read, best_iteration is
\* not read
ReadRecord(record) ==
    [iteration |-> record.iteration,
     burned_in_iteration |-> record.burned_in_iteration,
     burned_in |-> record.burned_in,
     multiplier |-> record.multiplier,
     model |-> record.model,
     datapoint |-> record.data,
     best_model |-> record.model,
     best_datapoint |-> record.data,
     data_misfit_v |-> record.phids,
     acceptance_rate |-> record.acceptance_rate]

\* fromHdf(hdfFile, fiducial=f): the acceptance rate is read under the key
\* 'rate', which createHdf() does not create
FromHdf(f) ==
    /\ f \in DOMAIN held
    /\ f \notin DOMAIN read_back
    /\ read_back' =
           Extended(read_back, f,
               IF "rate" \in DatasetKeys
               THEN ReadRecord(hdf_file[RecordIndex(f) + 1])
               ELSE [error |-> "KeyError"])
    /\ UNCHANGED <<sampler, parameters, functions, fiducials, hdf_file,
                   hdf_writers, held>>

FromHdfAny == \E k \in DOMAIN fiducials : FromHdf(fiducials[k])

\* a result file set up for its datapoints, and an Inference1D just built
HdfInit ==
    /\ Idle
    /\ NoConstruction
    /\ NoCalls
    /\ fiducials \in FiducialFiles
    /\ hdf_file = [k \in DOMAIN fiducials |-> CreatedRecord]
    /\ hdf_writers = [k \in DOMAIN fiducials |-> {}]
    /\ held = <<>>
    /\ read_back = <<>>

HdfNext == WriteHdfAny \/ FromHdfAny

HdfSpec == HdfInit /\ [][HdfNext]_vars

\* ---------------------------------------------------------- user_parameters
\* user_parameters.required_keys
required_keys ==
    <<"data_type", "data_filename", "system_filename", "n_markov_chains",
      "interactive_plot", "update_plot_every", "save_png", "save_hdf5",
      "solve_parameter", "solve_gradient", "maximum_number_of_layers",
      "minimum_depth", "maximum_depth", "probability_of_birth",
      "probability_of_death", "probability_of_perturb",
      "probability_of_no_change">>

Range(f) == {f[x] : x \in DOMAIN f}

\* the optional keys an options file may set, and the values it may give
\* them ("user" is a value of the user's, "None" is Python's None)
OptionalValues ==
    [join |-> {"user"}, multiplier |-> {"None", "user"},
     ignore_likelihood |-> {"True", "False"}]

\* what an options file sets besides the required keys: nothing, or one of
\* the optional keys
OptionalSettings ==
    {<<>>} \cup
    UNION {{[k \in {key} |-> value] : value \in OptionalValues[key]} :
              key \in DOMAIN OptionalValues}

\* the keyword arguments read from an options file: every required key but
\* MaxMissing at most, and an optional setting
OptionsFiles ==
    {[key \in (Range(required_keys) \ left_out) \cup DOMAIN setting |->
         IF key \in DOMAIN setting THEN setting[key] ELSE "user"] :
        left_out \in {keys \in SUBSET Range(required_keys) :
                        Cardinality(keys) <= MaxMissing},
        setting \in OptionalSettings}

\* mutant: only the first missing key is named
Missing_FirstOnly(kwargs) ==
    SubSeq(SelectSeq(required_keys, LAMBDA x : x \notin DOMAIN kwargs), 1, 1)

\* "missing = [ x for x in self.required_keys if not x in kwargs ]"
Missing(kwargs) == SelectSeq(required_keys, LAMBDA x : x \notin DOMAIN kwargs)

\* kwargs.get(key): None for an absent key
Get(kwargs, key) == IF key \in DOMAIN kwargs THEN kwargs[key] ELSE "None"

\* "default if kwargs.get(key) is None else kwargs.get(key)"
OrDefault(kwargs, key, default) ==
    IF Get(kwargs, key) = "None" THEN default ELSE Get(kwargs, key)

\* the keys and values __init__() stores: 'join' dropped, the defaults set
Stored(kwargs) ==
    [key \in (DOMAIN kwargs \ {"join"})
                \cup {"gradient_standard_deviation", "multiplier",
                      "stochastic_newton", "factor", "covariance_scaling"} |->
        CASE key = "gradient_standard_deviation" -> OrDefault(kwargs, key, "1.5")
          [] key = "multiplier" -> OrDefault(kwargs, key, "1.0")
          [] key = "stochastic_newton" ->
                 IF OrDefault(kwargs, "ignore_likelihood", "False") = "True"
                 THEN "False" ELSE "True"
          [] key = "factor" -> OrDefault(kwargs, key, "10.0")
          [] key = "covariance_scaling" -> OrDefault(kwargs, key, "1.0")
          [] OTHER -> kwargs[key]]

\* user_parameters(**options) raises ValueError before anything is stored
ConstructRaises ==
    /\ construction = "pending"
    /\ Len(Missing(options)) > 0
    /\ missing_named' = Missing(options)
    /\ construction' = "raised"
    /\ UNCHANGED <<sampler, hdf, functions, options, user_parameters>>

\* user_parameters(**options) returns
ConstructReturns ==
    /\ construction = "pending"
    /\ Len(Missing(options)) = 0
    /\ user_parameters' = Stored(options)
    /\ construction' = "returned"
    /\ UNCHANGED <<sampler, hdf, functions, options, missing_named>>

ParametersInit ==
    /\ Idle
    /\ HdfClosed
    /\ NoCalls
    /\ options \in OptionsFiles
    /\ construction = "pending"
    /\ user_parameters = <<>>
    /\ missing_named = <<>>

ParametersNext == ConstructRaises \/ ConstructReturns

ParametersSpec == ParametersInit /\ [][ParametersNext]_vars


\* ------------------------------------------ FdemDataPoint.FindBestHalfSpace
\* The search works on log10 conductivities between log10(minConductivity)
\* and log10(maxConductivity).  They are counted here in steps of the finest
\* bisection the loop can reach, so that every midpoint 0.5 * (c0 + c1) is a
\* whole number: minConductivity is 0 and maxConductivity is GridSize.
GridSize == 2 ^ (MaxIterations - 1)

\* dataMisfit(squared=True) after forward(model): a positive number that
\* depends on the conductivity only.
Misfits == 1..MaxMisfit

\* the keyword argument percentThreshold: its default and a coarse one
PercentThresholds == {1, 30}

\* the misfits forward() and dataMisfit() may give at conductivity c: the
\* one they gave before when c was evaluated before
MisfitsAt(c) == IF c \in DOMAIN evaluated THEN {evaluated[c]} ELSE Misfits

\* "dPhiD = abs(PhiD2 - PhiD1) / PhiD2" against 0.01 * percentThreshold
AboveThreshold == 100 * Abs(PhiD2 - PhiD1) > percentThreshold * PhiD2

\* mutant: the loop test without its iteration bound
Continue_Unbounded == AboveThreshold

\* "while (dPhiD > percentThreshold and i < maxIterations):"
Continue == AboveThreshold /\ search_i < MaxIterations

\* the bisection point as Python computes it
Midpoint == (c0 + c1) \div 2

\* the state before the loop: both ends of the bracket evaluated, the model
\* left at the conductivity of the upper end
HalfSpaceInit ==
    /\ Idle
    /\ HdfClosed
    /\ NoConstruction
    /\ NoForward
    /\ NoPercentile
    /\ percentThreshold \in PercentThresholds
    /\ c0 = 0
    /\ c1 = GridSize
    /\ cnew = Midpoint
    /\ PhiD1 \in Misfits
    /\ PhiD2 \in Misfits
    /\ PhiDnew = 0
    /\ search_i = 1
    /\ par = c1
    /\ evaluated = (c0 :> PhiD1) @@ (c1 :> PhiD2)
    /\ search = "searching"

\* one pass of the loop
Bisect ==
    /\ search = "searching"
    /\ Continue
    /\ cnew' = Midpoint
    /\ par' = cnew'
    /\ PhiDnew' \in MisfitsAt(cnew')
    /\ evaluated' = (cnew' :> PhiDnew') @@ evaluated
    /\ IF PhiD2 > PhiDnew'
       THEN c1' = cnew' /\ PhiD2' = PhiDnew' /\ UNCHANGED <<c0, PhiD1>>
       ELSE IF PhiD1 > PhiDnew'
            THEN c0' = cnew' /\ PhiD1' = PhiDnew' /\ UNCHANGED <<c1, PhiD2>>
            ELSE UNCHANGED <<c0, c1, PhiD1, PhiD2>>
    /\ search_i' = search_i + 1
    /\ UNCHANGED <<sampler, hdf, parameters, kernel, mesh, percentThreshold,
                   search>>

\* "return model"
ReturnModel ==
    /\ search = "searching"
    /\ ~Continue
    /\ search' = "returned"
    /\ UNCHANGED <<sampler, hdf, parameters, kernel, mesh, percentThreshold,
                   c0, c1, cnew, PhiD1, PhiD2, PhiDnew, search_i, par,
                   evaluated>>

HalfSpaceNext == Bisect \/ ReturnModel

HalfSpaceSpec == HalfSpaceInit /\ [][HalfSpaceNext]_vars


\* --------------------------- FdemDataPoint.forward, FdemDataPoint.sensitivity
\* the datapoints: MaxSystems subsystems at most, each with its frequencies
Systems ==
    UNION {[1..n -> 1..MaxFrequencies] : n \in 1..MaxSystems}

Min(a, b) == IF a <= b THEN a ELSE b

RECURSIVE SumTo(_, _)
SumTo(f, n) == IF n = 0 THEN 0 ELSE f[n] + SumTo(f, n - 1)

\* channels_per_system = 2 * nFrequencies, summed over the subsystems
nChannels == 2 * SumTo(system, Len(system))

\* the first channel of subsystem s, counted from 0
systemOffset(s) == 2 * SumTo(system, s - 1)

\* fdem1dfwd(s, mod, z): the response of subsystem s at its frequency f, a
\* value of its own for every subsystem, part (0 real, 1 imaginary) and
\* frequency, and never the 0 the predicted data start with
Response(s, part, f) == 1 + (f - 1) + MaxFrequencies * (part + 2 * (s - 1))

\* fdem1dsen(s, mod, z): the derivatives of that response with respect to the
\* conductivity of every layer
Derivative(s, part, f) == [k \in 1..nCells |-> nCells * Response(s, part, f) + k]

\* numpy's "a[lo:hi] = v" on the first axis: the slice is clipped to the
\* array, v is copied when it has the slice's length, repeated when it has
\* length 1, and the assignment raises ValueError otherwise
SliceAssign(a, lo, hi, v) ==
    LET start == Min(lo, Len(a))
        stop == Min(hi, Len(a))
        length == IF stop > start THEN stop - start ELSE 0
    IN  IF Len(v) = length
        THEN [raised |-> FALSE,
              array |-> [k \in 1..Len(a) |->
                            IF k > start /\ k <= stop THEN v[k - start]
                            ELSE a[k]]]
        ELSE IF Len(v) = 1
        THEN [raised |-> FALSE,
              array |-> [k \in 1..Len(a) |->
                            IF k > start /\ k <= stop THEN v[1] ELSE a[k]]]
        ELSE [raised |-> TRUE, array |-> a]

\* "a[:nFrequencies[i]] = tmp.real" then "a[nFrequencies[i]:] = tmp.imag"
WriteSystem(a, s, re, im) ==
    LET real == SliceAssign(a, 0, system[s], re)
    IN  IF real.raised THEN real
        ELSE SliceAssign(real.array, system[s], Len(a), im)

\* the loop "for i, s in enumerate(self.system)" of _forward1D, from
\* subsystem s on
RECURSIVE Forward1D(_, _)
Forward1D(a, s) ==
    IF s > Len(system) THEN [raised |-> FALSE, array |-> a]
    ELSE LET written ==
                 WriteSystem(a, s,
                             [f \in 1..system[s] |-> Response(s, 0, f)],
                             [f \in 1..system[s] |-> Response(s, 1, f)])
         IN  IF written.raised THEN written
             ELSE Forward1D(written.array, s + 1)

\* the same loop of _sensitivity1D
RECURSIVE Sensitivity1D(_, _)
Sensitivity1D(a, s) ==
    IF s > Len(system) THEN [raised |-> FALSE, array |-> a]
    ELSE LET written ==
                 WriteSystem(a, s,
                             [f \in 1..system[s] |-> Derivative(s, 0, f)],
                             [f \in 1..system[s] |-> Derivative(s, 1, f)])
         IN  IF written.raised THEN written
             ELSE Sensitivity1D(written.array, s + 1)

\* forward(mod): the assertion of _forward1D, then its loop
Forward ==
    /\ forward_result = "none"
    /\ system # <<>>
    /\ IF ~last_edge_is_inf
       THEN /\ forward_result' = "AssertionError"
            /\ UNCHANGED predictedData
       ELSE LET written == Forward1D(predictedData, 1)
            IN  /\ predictedData' = written.array
                /\ forward_result' =
                       IF written.raised THEN "ValueError" ELSE "returned"
    /\ UNCHANGED <<sampler, hdf, parameters, halfspace, mesh, system, nCells,
                   last_edge_is_inf, J, sensitivity_result>>

\* sensitivity(mod): _sensitivity1D fills a new array of nChannels rows and
\* assigns it to self.J when its loop is through
Sensitivity ==
    /\ sensitivity_result = "none"
    /\ system # <<>>
    /\ LET written ==
               Sensitivity1D([c \in 1..nChannels |-> [k \in 1..nCells |-> 0]], 1)
       IN  /\ J' = IF written.raised THEN J ELSE written.array
           /\ sensitivity_result' =
                  IF written.raised THEN "ValueError" ELSE "returned"
    /\ UNCHANGED <<sampler, hdf, parameters, halfspace, mesh, system, nCells,
                   last_edge_is_inf, predictedData, forward_result>>

\* a datapoint with its predicted data at zero, and a model
KernelInit ==
    /\ Idle
    /\ HdfClosed
    /\ NoConstruction
    /\ NoSearch
    /\ NoPercentile
    /\ system \in Systems
    /\ nCells \in 1..MaxCells
    /\ last_edge_is_inf \in BOOLEAN
    /\ predictedData = [c \in 1..nChannels |-> 0]
    /\ J = <<>>
    /\ forward_result = "none"
    /\ sensitivity_result = "none"

KernelNext == Forward \/ Sensitivity

KernelSpec == KernelInit /\ [][KernelNext]_vars


\* ---------------- Mesh._percentile, _credible_intervals and _credible_range
\* the counts of a one-dimensional histogram
Counts == UNION {[1..n -> 0..MaxCount] : n \in 1..MaxBins}

\* the percentages asked for: inside the documented 0 < percent < 100, and
\* one beyond it
Percents == {10, 30, 50, 70, 90, 120}

\* mesh.centres_absolute[i], i counted from 0: the centres of bins of equal
\* width
Centre(b) == 10 * b + 5

\* "cs = cumsum(values, axis=axis)", at bin k counted from 1
RECURSIVE CumSum(_, _)
CumSum(v, k) == IF k = 0 THEN 0 ELSE v[k] + CumSum(v, k - 1)

\* "total = values.sum(axis=axis)"
Total(v) == CumSum(v, Len(v))

\* tmp[k] < percent, where tmp is cs / total, or 0 where the total is 0, and
\* percent has been multiplied by 0.01.  Percentages are counted in halves
\* of a percent (twice = 2 * percent), in exact arithmetic.
FractionBelow(v, k, twice) ==
    IF Total(v) > 0 THEN 200 * CumSum(v, k) < twice * Total(v) ELSE 0 < twice

\* "searchsorted(tmp, percent)" on the non-decreasing tmp
SearchFraction(v, twice) ==
    Cardinality({k \in 1..Len(v) : FractionBelow(v, k, twice)})

\* mutant: the index is left as searchsorted returns it
Clamp_Not(b, n) == b

\* "i[i == values.shape[axis]] = values.shape[axis] - 1"
Clamp(b, n) == IF b = n THEN n - 1 ELSE b

\* the bin _percentile selects for one percentage
PercentileIndex(v, twice) == Clamp(SearchFraction(v, twice), Len(v))

\* mutant: the percentage is halved as given
HalfTail_AsGiven == percent

\* "percent = 0.5 * minimum(percent, 100.0 - percent)", in halves of a percent
HalfTail == Min(percent, 100 - percent)

\* _percentile(values, percent) on a one-dimensional mesh
Percentile ==
    /\ mesh_call = "pending"
    /\ selected' = <<PercentileIndex(values, 2 * percent)>>
    /\ interval' = <<Centre(selected'[1])>>
    /\ mesh_call' = "_percentile"
    /\ UNCHANGED <<sampler, hdf, parameters, halfspace, kernel, values,
                   percent>>

\* _credible_intervals(values, percent): the median, the lower and the upper
\* interval from r_[50.0, percent, 100.0 - percent]
CredibleIntervals ==
    /\ mesh_call = "pending"
    /\ selected' = <<PercentileIndex(values, 100),
                     PercentileIndex(values, HalfTail),
                     PercentileIndex(values, 200 - HalfTail)>>
    /\ interval' = [k \in 1..3 |-> Centre(selected'[k])]
    /\ mesh_call' = "_credible_intervals"
    /\ UNCHANGED <<sampler, hdf, parameters, halfspace, kernel, values,
                   percent>>

\* _credible_range(values, percent) on an axis without a logarithm
CredibleRange ==
    /\ mesh_call = "pending"
    /\ selected' = <<PercentileIndex(values, HalfTail),
                     PercentileIndex(values, 200 - HalfTail)>>
    /\ interval' = <<Abs(Centre(selected'[2]) - Centre(selected'[1]))>>
    /\ mesh_call' = "_credible_range"
    /\ UNCHANGED <<sampler, hdf, parameters, halfspace, kernel, values,
                   percent>>

MeshInit ==
    /\ Idle
    /\ HdfClosed
    /\ NoConstruction
    /\ NoSearch
    /\ NoForward
    /\ values \in Counts
    /\ percent \in Percents
    /\ mesh_call = "pending"
    /\ selected = <<>>
    /\ interval = <<>>

MeshNext == Percentile \/ CredibleIntervals \/ CredibleRange

MeshSpec == MeshInit /\ [][MeshNext]_vars

\* ------------------------------------------------------------------- claims
\* The loop bound of infer() is not reached yet: the test would go on.
LoopBoundOpen ==
    IF burned_in
    THEN iteration <= n_markov_chains + burned_in_iteration
    ELSE iteration < n_markov_chains

\* C1: once burned_in is true it never becomes false again, and
\* burned_in_iteration is assigned only in the step that declares burn-in,
\* to that step's iteration, and by no later update().
C1_BurnInMonotone ==
    [][/\ burned_in => burned_in'
       /\ burned_in_iteration' # burned_in_iteration =>
              /\ ~burned_in
              /\ burned_in'
              /\ burned_in_iteration' = iteration']_vars

\* C1 witness: a chain that declared burn-in and was updated again after it.
C1_Witness ==
    /\ ~ignore_likelihood
    /\ burned_in
    /\ burned_in_iteration > BurnInMinIteration
    /\ iteration > burned_in_iteration + 1

\* C2, as stated: best_posterior is at least the posterior recorded at every
\* iteration of the run, the iterations before the burn-in transition included.
C2_BestAboveWholeRun == best_posterior >= peak_posterior

\* C2, amended: best_posterior is at least the posterior recorded at every
\* iteration since the burn-in transition (that iteration included), or since
\* initialize() while burn-in has not been declared.
C2_BestAboveSinceReset == best_posterior >= peak_since_reset

\* C2 witness: a burned-in chain, updated after the transition, whose
\* pre-burn-in iterations had recorded a larger posterior.
C2_Witness ==
    /\ ~ignore_likelihood
    /\ burned_in
    /\ iteration > burned_in_iteration
    /\ peak_posterior > peak_since_reset
    /\ pc = "test"

\* C3, as stated: the posterior accumulators of the model and of the
\* datapoint are modified only by an update() that ends burned in.
C3_AccumulateOnlyBurnedIn ==
    [][\/ model_posterior' # model_posterior
       \/ datapoint_posterior' # datapoint_posterior
       => burned_in']_vars

\* C4, as stated: when the loop of infer() ends on a burned-in chain that
\* did not fail, iteration - burned_in_iteration = n_markov_chains.
C4_PostBurnInCount ==
    (pc = "done" /\ burned_in /\ failed # "True") =>
        iteration - burned_in_iteration = n_markov_chains

\* C5: infer() terminates: every pass of the loop goes through
\* accept_reject(), update(), the plot and the loop test in this order or
\* ends the run, update() adds exactly 1 to the iteration counter, the
\* counter never exceeds 2 * n_markov_chains + 1, and it never exceeds
\* n_markov_chains while burn-in has not been declared.
C5_Terminates ==
    [][/\ pc = "accept_reject" => pc' \in {"update", "crashed"}
       /\ pc = "update" =>
              pc' \in {"plot", "crashed"} /\ iteration' = iteration + 1
       /\ pc = "plot" => pc' \in {"test", "crashed"}
       /\ pc = "test" => pc' \in {"accept_reject", "done"}
       /\ pc \notin {"done", "crashed"}
       /\ iteration' <= 2 * n_markov_chains + 1
       /\ ~burned_in' => iteration' <= n_markov_chains]_vars

\* C5 witness: the loop has ended at iteration n_markov_chains on a chain
\* that never burned in.
C5_Witness ==
    /\ pc = "done"
    /\ ~burned_in
    /\ iteration = n_markov_chains

\* C6, as stated: after a perturbation error the current state is kept and
\* the loop goes on to the next iteration whenever its bound is not reached.
C6_PerturbErrorContinues ==
    [][/\ (pc = "accept_reject" /\ failed' = "True") =>
              pc' = "update" /\ UNCHANGED <<current, accepted>>
       /\ (pc = "test" /\ failed = "True" /\ LoopBoundOpen) =>
              pc' = "accept_reject"]_vars

\* C6, amended: after a perturbation error no candidate is accepted and the
\* current state is kept, but the chain ends: with the likelihood in use
\* accept_reject() returns True, update() runs once more and the loop test
\* leaves the loop with failed = True; under ignore_likelihood the error
\* handler itself raises and infer() is aborted.
C6_PerturbErrorEndsChain ==
    [][/\ (pc = "accept_reject" /\ (failed' = "True" \/ pc' = "crashed")) =>
              /\ UNCHANGED <<current, accepted>>
              /\ pc' = IF ignore_likelihood THEN "crashed" ELSE "update"
       /\ (pc = "update" /\ failed = "True") => failed' = "True"
       /\ (pc = "plot" /\ failed = "True") => failed' = "True"
       /\ (pc = "test" /\ failed = "True") =>
              pc' = "done" /\ failed' = "True"]_vars

\* C6 witness: the loop ended on a perturbation error before any bound.
C6_Witness ==
    /\ pc = "done"
    /\ failed = "True"
    /\ ~burned_in
    /\ iteration < n_markov_chains

\* C7: a candidate whose datapoint prior or summed prior is -inf leaves
\* model, datapoint, prior, likelihood, posterior, data misfit and the
\* accepted counter unchanged, and the loop test treats it as a rejection:
\* the loop goes on whenever its bound is not reached.
C7_EarlyRejectKeepsState ==
    [][/\ (pc = "accept_reject" /\ pc' = "update" /\ failed' = "None") =>
              UNCHANGED <<current, accepted>>
       /\ (pc = "test" /\ failed = "None" /\ LoopBoundOpen) =>
              pc' = "accept_reject" /\ failed' = "None"]_vars

\* C7 witness: the loop went on to a next iteration after an early rejection.
C7_Witness ==
    /\ pc = "accept_reject"
    /\ failed = "None"
    /\ iteration > 0

\* C8: an accept_reject() step either leaves model, datapoint, data misfit,
\* prior, likelihood, posterior and the accepted counter unchanged, or
\* replaces all six by the values of one candidate and adds exactly 1 to the
\* accepted counter.
C8_AcceptRejectFrame ==
    [][pc = "accept_reject" =>
          \/ UNCHANGED <<current, accepted>>
          \/ /\ accepted' = accepted + 1
             /\ data_misfit' = DataMisfit(model', datapoint')
             /\ prior' = CandidatePrior(model', datapoint')
             /\ likelihood' = CandidateLikelihood(model', datapoint')
             /\ posterior' = Plus(prior', likelihood')]_vars

\* C8 witness: a candidate other than the initial state has just been accepted.
C8_Witness ==
    /\ pc = "update"
    /\ iteration = 0
    /\ accepted = 1
    /\ <<model, datapoint>> # <<best_model, best_datapoint>>

\* C9: the stored log-posterior is the stored log-prior plus the stored
\* log-likelihood, after initialize() and after every accept_reject().
C9_PosteriorIsSum == posterior = Plus(prior, likelihood)

\* C9 witness: an accepted candidate with the likelihood in use.
C9_Witness ==
    /\ ~ignore_likelihood
    /\ pc = "update"
    /\ accepted > 0
    /\ likelihood # 0
    /\ prior # 0

\* C10, as stated: under ignore_likelihood the stored log-likelihood is 0
\* and the stored log-posterior equals the log-prior.
C10_IgnoredLikelihoodIsZero ==
    ignore_likelihood => (likelihood = 0 /\ posterior = prior)

\* C11, as stated: while the chain is not burned in, an update() past the
\* minimum iteration that brings the number of iterations with the misfit
\* within tolerance to TargetHitsNeeded declares burn-in.
C11_HitsAtLeastNeeded ==
    [][(pc = "update" /\ ~burned_in /\ iteration' > BurnInMinIteration
           /\ n_target_hits' >= TargetHitsNeeded) => burned_in']_vars

\* C11, amended: while the chain is not burned in, update() counts a hit
\* exactly when its iteration is past the minimum and the misfit is within
\* tolerance of multiplier * target_misfit, and it declares burn-in exactly
\* when its iteration is past the minimum and either the chi-squared fit is
\* below 1 or the hits counted exceed TargetHitsNeeded (one more hit than
\* TargetHitsNeeded is needed).
C11_HitsExceedNeeded ==
    [][(pc = "update" /\ ~burned_in) =>
          /\ n_target_hits' - n_target_hits =
                 IF /\ iteration' > BurnInMinIteration
                    /\ IsClose(data_misfit, multiplier * NumActive)
                 THEN 1 ELSE 0
          /\ burned_in' <=>
                 /\ iteration' > BurnInMinIteration
                 /\ \/ relative_chi_squared_fit < 1
                    \/ n_target_hits' > TargetHitsNeeded]_vars

\* C11 witness: burn-in declared by the hit count alone, the chi-squared fit
\* never having been below 1.
C11_Witness ==
    /\ burned_in
    /\ ~ignore_likelihood
    /\ relative_chi_squared_fit >= 1
    /\ n_target_hits = TargetHitsNeeded + 1
    /\ iteration = burned_in_iteration
    /\ pc = "plot"

\* C12: with the likelihood in use, no update() at an iteration up to the
\* minimum iteration declares burn-in or counts a hit, whatever the misfit
\* and the chi-squared fit are.
C12_NoEarlyBurnIn ==
    [][(pc = "update" /\ ~ignore_likelihood
           /\ iteration' <= BurnInMinIteration) =>
          ~burned_in' /\ n_target_hits' = 0]_vars

\* C12 witness: the update() of the minimum iteration has run with the
\* chi-squared fit below 1 and the misfit within tolerance, and burn-in is
\* not declared.
C12_Witness ==
    /\ ~ignore_likelihood
    /\ ~burned_in
    /\ pc = "plot"
    /\ iteration = BurnInMinIteration
    /\ relative_chi_squared_fit < 1
    /\ IsClose(data_misfit, multiplier * NumActive)
    /\ n_target_hits = 0

\* C13: the update() that declares burn-in sets burned_in_iteration and
\* best_iteration to its iteration, sets the best model, best datapoint and
\* best posterior to the current ones, and resets the posteriors of the misfit
\* trace, of the model and of the datapoint: the samples accumulated before
\* are discarded, and the model and the datapoint hold only the sample that
\* the same call adds after the reset.
C13_BurnInTransition ==
    [][(pc = "update" /\ ~burned_in /\ burned_in') =>
          /\ burned_in_iteration' = iteration'
          /\ best_iteration' = iteration'
          /\ best_model' = model
          /\ best_datapoint' = datapoint
          /\ best_posterior' = posterior
          /\ misfit_posterior' = 0
          /\ model_posterior' = (IF pc' = "plot" THEN 1 ELSE 0)
          /\ datapoint_posterior' = model_posterior']_vars

\* C13 witness: burn-in has just been declared on a chain whose best record
\* was an earlier state and whose posteriors held earlier samples.
C13_Witness ==
    /\ pc = "plot"
    /\ burned_in
    /\ ~ignore_likelihood
    /\ iteration = burned_in_iteration
    /\ best_iteration = iteration
    /\ model_posterior = 1
    /\ misfit_posterior = 0
    /\ peak_posterior > best_posterior
    /\ interactive_plot
    /\ update_plot_every < iteration

\* The state initialize() leaves: no accept_reject() or update() has run.
AfterInitialize == pc = "accept_reject" /\ model_posterior = 0

\* C14, as stated: after initialize(), for every configuration, burned_in is
\* false and the iteration counter is 0.
C14_InitializedNotBurnedIn ==
    AfterInitialize => (~burned_in /\ iteration = 0)

\* C14, amended: after initialize() the iteration counter is 0; burned_in is
\* false and burned_in_iteration is 0 when the likelihood is in use, and
\* under ignore_likelihood burned_in is true and burned_in_iteration is
\* n_markov_chains.
C14_InitializedBurnedInIffIgnored ==
    AfterInitialize =>
        /\ iteration = 0
        /\ burned_in <=> ignore_likelihood
        /\ burned_in_iteration =
               IF ignore_likelihood THEN n_markov_chains ELSE 0

\* C14 witness: initialize() has run under ignore_likelihood.
C14_Witness ==
    /\ AfterInitialize
    /\ ignore_likelihood
    /\ burned_in
    /\ burned_in_iteration = n_markov_chains

\* C15: the misfit multiplier is changed only by an update() whose iteration
\* is a multiple of update_plot_every, on a chain that is not burned in before
\* or after the call and whose relative error has no prior, and then it is
\* multiplied by the configured step; every other step of the run, and every
\* step of a burned-in chain, leaves it unchanged.
C15_MultiplierFrame ==
    [][multiplier' # multiplier =>
          /\ pc = "update"
          /\ iteration' % update_plot_every = 0
          /\ ~burned_in
          /\ ~burned_in'
          /\ ~has_prior
          /\ multiplier' = multiplier * kwargs_multiplier]_vars

\* C15 witness: the multiplier has been raised at a window boundary, and the
\* chain has since burned in and closed another window with it unchanged.
C15_Witness ==
    /\ multiplier = kwargs_multiplier
    /\ burned_in
    /\ ~has_prior
    /\ pc = "plot"
    /\ iteration >= 2 * update_plot_every
    /\ iteration % update_plot_every = 0
    /\ burned_in_iteration > update_plot_every

\* infer() has left its loop and update_plot_every divides n_markov_chains.
CompletedWholeWindows ==
    pc = "done" /\ n_markov_chains % update_plot_every = 0

\* C16, as stated: when update_plot_every divides n_markov_chains, the
\* acceptance_rate series of a completed run has exactly
\* n_markov_chains / update_plot_every entries.
C16_SeriesOnePerWindow ==
    CompletedWholeWindows =>
        /\ AcceptanceLength = n_markov_chains \div update_plot_every
        /\ acceptance_written = n_markov_chains \div update_plot_every

\* C16, amended: when update_plot_every divides n_markov_chains, the
\* acceptance_rate series of a completed run has exactly
\* 2 * n_markov_chains / update_plot_every entries, of which the first
\* iteration / update_plot_every (rounded down) are written; a chain that
\* ends at n_markov_chains iterations without burn-in has written
\* n_markov_chains / update_plot_every of them.
C16_SeriesTwoPerWindow ==
    CompletedWholeWindows =>
        /\ AcceptanceLength = 2 * (n_markov_chains \div update_plot_every)
        /\ acceptance_written = iteration \div update_plot_every
        /\ acceptance_written <= AcceptanceLength
        /\ (~burned_in /\ iteration = n_markov_chains) =>
               acceptance_written = n_markov_chains \div update_plot_every

\* C16 witness: a burned-in chain has completed its post-burn-in iterations
\* and written more than n_markov_chains / update_plot_every entries.
C16_Witness ==
    /\ CompletedWholeWindows
    /\ burned_in
    /\ ~ignore_likelihood
    /\ failed # "True"
    /\ acceptance_written > n_markov_chains \div update_plot_every

\* C17: update() writes an acceptance_rate entry exactly at the iterations
\* that are multiples of update_plot_every; the entry, AcceptancePercent, is
\* 100 * accepted / update_plot_every and lies in [0, 100]; the same call
\* resets the accepted counter to 0, so that the counter holds the number of
\* candidates accepted since the previous boundary: accept_reject() adds at
\* most 1 to it, no other step changes it, and it never exceeds
\* update_plot_every.
C17_AcceptanceWindow ==
    [][/\ (pc = "update" /\ acceptance_written' # acceptance_written) =>
              /\ iteration' % update_plot_every = 0
              /\ acceptance_written' = acceptance_written + 1
              /\ AcceptancePercent[1] >= 0
              /\ AcceptancePercent[1] <= 100 * AcceptancePercent[2]
              /\ accepted' = 0
       /\ (pc = "update" /\ pc' = "plot") =>
              IF iteration' % update_plot_every = 0
              THEN acceptance_written' = acceptance_written + 1
              ELSE UNCHANGED <<accepted, acceptance_written>>
       /\ pc = "accept_reject" =>
              /\ accepted' \in {accepted, accepted + 1}
              /\ UNCHANGED acceptance_written
       /\ pc \in {"plot", "test"} => UNCHANGED <<accepted, acceptance_written>>
       /\ accepted' <= update_plot_every]_vars

\* C17 witness: the first window has been closed and its counter reset, and
\* every candidate of the second window has been accepted: the update() about
\* to run writes the entry 100.
C17_Witness ==
    /\ pc = "update"
    /\ update_plot_every > 1
    /\ iteration + 1 = 2 * update_plot_every
    /\ acceptance_written = 1
    /\ accepted = update_plot_every

\* what fromHdf() has to return for the run an Inference1D held
Reconstructed(run) ==
    [field \in DOMAIN run \ {"best_iteration"} |-> run[field]]

\* C18, as stated: for every run written with writeHdf() and read back with
\* fromHdf(), the record of its index holds the run's best iteration and
\* fromHdf() returns the model, datapoint, misfit trace, acceptance-rate
\* series, best model and best datapoint the run held.
C18_RoundTrip ==
    \A f \in DOMAIN read_back :
        /\ read_back[f] = Reconstructed(held[f])
        /\ hdf_file[RecordIndex(f) + 1].best_iteration = held[f].best_iteration

C20_RequiredKeys ==
    /\ construction = "raised" =>
           /\ Range(missing_named) = Range(required_keys) \ DOMAIN options
           /\ Len(missing_named) = Cardinality(Range(missing_named))
           /\ missing_named # <<>>
           /\ user_parameters = <<>>
    /\ construction = "returned" =>
           /\ Range(required_keys) \subseteq DOMAIN options
           /\ missing_named = <<>>
           /\ \A key \in DOMAIN options \ {"join"} :
                  /\ key \in DOMAIN user_parameters
                  /\ options[key] # "None" =>
                         user_parameters[key] = options[key]

\* C20 witness: a construction has raised on options that leave out
\* MaxMissing required keys.
C20_Witness ==
    /\ construction = "raised"
    /\ Len(missing_named) = MaxMissing
    /\ "join" \in DOMAIN options

\* C26, as stated: every write to the misfit trace by update() uses an index
\* iteration - 1 below the trace's allocated length 2 * n_markov_chains,
\* whenever update() is about to run.
C26_MisfitIndexInRange ==
    pc = "update" => NextIteration - 1 < MisfitLength

\* C27, as stated: every acceptance-rate write at a window boundary uses an
\* index int(iteration / update_plot_every) - 1 below the series' allocated
\* length 2 * int(n_markov_chains / update_plot_every), whenever update() is
\* about to run and gets past its misfit write.
C27_AcceptanceIndexInRange ==
    (pc = "update" /\ ~MisfitIndexError /\ WindowBoundary) =>
        AcceptanceIndex < AcceptanceLength

\* C28: relative_chi_squared_fit changes only in the misfit plot, taken at a
\* multiple of update_plot_every in an interactive run; without
\* interactive_plot it keeps its initial value, and an update() that declares
\* burn-in then has more than the needed target hits.
C28_FitOnlyFromPlot ==
    [][/\ relative_chi_squared_fit' # relative_chi_squared_fit =>
              /\ pc = "plot"
              /\ interactive_plot
              /\ iteration % update_plot_every = 0
       /\ ~interactive_plot =>
              /\ relative_chi_squared_fit = InitialChiSquaredFit
              /\ relative_chi_squared_fit' = InitialChiSquaredFit
              /\ (~burned_in /\ burned_in') =>
                     n_target_hits' > TargetHitsNeeded]_vars

\* C28 witness: a run without interactive_plot has declared burn-in with the
\* fit still at its initial value.
C28_Witness ==
    /\ ~interactive_plot
    /\ ~ignore_likelihood
    /\ burned_in
    /\ relative_chi_squared_fit = InitialChiSquaredFit
    /\ n_target_hits > TargetHitsNeeded

\* C29, as stated: infer() returns its loop's failed flag.  A perturbation
\* error makes accept_reject() return True instead of aborting the run; once
\* the loop has ended infer() returns, with the flag as the loop left it; a
\* flag that is not True is returned only for a chain that burned in and
\* completed its post-burn-in iterations, and a True flag on a chain that is
\* not burned in and saw no perturbation error means the chain reached
\* n_markov_chains iterations.
C29_ReturnValue ==
    [][/\ pc = "accept_reject" => pc' = "update"
       /\ pc = "done" =>
              /\ pc' = "returned"
              /\ failed' = failed
              /\ failed # "True" =>
                     /\ burned_in
                     /\ iteration > n_markov_chains + burned_in_iteration
       /\ (pc = "test" /\ failed # "True" /\ failed' = "True") =>
              /\ pc' = "done"
              /\ ~burned_in
              /\ iteration >= n_markov_chains]_vars

\* C21: FindBestHalfSpace terminates: every pass of its loop adds one to i,
\* which starts at 1 and never exceeds maxIterations, so there are fewer
\* than maxIterations bisections; a pass is made only while the relative
\* misfit change of the bracket ends is above the threshold, and the search
\* returns at once when it is not.
C21_SearchTerminates ==
    [][/\ search = "searching"
       /\ search_i' <= MaxIterations
       /\ IF AboveThreshold /\ search_i < MaxIterations
          THEN search_i' = search_i + 1 /\ search' = "searching"
          ELSE /\ search' = "returned"
               /\ UNCHANGED <<search_i, c0, c1, par, evaluated>>]_vars

\* C21 witness: the search has returned at the iteration bound with the
\* relative change still above the default threshold, after moving both ends.
C21_Witness ==
    /\ search = "returned"
    /\ search_i = MaxIterations
    /\ percentThreshold = 1
    /\ AboveThreshold
    /\ c0 > 0
    /\ c1 < GridSize

\* C25, as stated: no conductivity evaluated during the search has a
\* strictly smaller misfit than the conductivity of the returned model.
C25_ReturnsBestEvaluated ==
    search = "returned" =>
        \A c \in DOMAIN evaluated : evaluated[c] >= evaluated[par]

\* C22, as stated: sensitivity(model) on a model whose last edge is finite
\* fails instead of returning a Jacobian.
C22_SensitivityNeedsInfiniteEdge ==
    ~last_edge_is_inf => sensitivity_result # "returned"

\* C23, as stated: forward(model) on a model with an infinite last edge
\* returns, and then every subsystem's real parts are in the first F_s
\* channels from the subsystem's offset and its imaginary parts in the next
\* F_s channels.
C23_OwnChannelRange ==
    /\ forward_result # "ValueError"
    /\ forward_result = "returned" =>
           \A s \in DOMAIN system : \A f \in 1..system[s] :
               /\ predictedData[systemOffset(s) + f] = Response(s, 0, f)
               /\ predictedData[systemOffset(s) + system[s] + f] =
                      Response(s, 1, f)

\* The cumulative count fraction of bin b (counted from 0) is at least
\* twice / 2 percent.
FractionAtLeast(b, twice) ==
    IF Total(values) > 0
    THEN 200 * CumSum(values, b + 1) >= twice * Total(values)
    ELSE 0 >= twice

\* b is the first bin whose cumulative count fraction is at least twice / 2
\* percent, or the last bin when no bin has such a fraction.
IsPercentileBin(b, twice) ==
    /\ b \in 0..(Len(values) - 1)
    /\ IF \E a \in 0..(Len(values) - 1) : FractionAtLeast(a, twice)
       THEN /\ FractionAtLeast(b, twice)
            /\ \A a \in 0..(b - 1) : ~FractionAtLeast(a, twice)
       ELSE b = Len(values) - 1

\* C24, as stated: for 0 < percent < 100 the lower and upper intervals are
\* the percentiles percent / 2 and 100 - percent / 2 of the counts.
C24_IntervalOfHalfPercent ==
    (mesh_call = "_credible_intervals" /\ percent > 0 /\ percent < 100) =>
        /\ IsPercentileBin(selected[2], percent)
        /\ IsPercentileBin(selected[3], 200 - percent)

\* C24, amended: for 0 < percent < 100 the lower and upper intervals are the
\* percentiles q / 2 and 100 - q / 2 of the counts, where q is the smaller
\* of percent and 100 - percent, the first value returned is the median, and
\* the three are the centres of their bins.
C24_IntervalOfHalfSmallerTail ==
    (mesh_call = "_credible_intervals" /\ percent > 0 /\ percent < 100) =>
        LET q == IF percent <= 50 THEN percent ELSE 100 - percent
        IN  /\ IsPercentileBin(selected[1], 100)
            /\ IsPercentileBin(selected[2], q)
            /\ IsPercentileBin(selected[3], 200 - q)
            /\ interval = [k \in 1..3 |-> Centre(selected[k])]

\* C24 witness: the credible interval for 90 percent lies on three different
\* bins, where the percentiles 45 and 55 fall on the bin of the median.
C24_Witness ==
    /\ mesh_call = "_credible_intervals"
    /\ percent = 90
    /\ selected[2] < selected[1]
    /\ selected[1] < selected[3]
    /\ IsPercentileBin(selected[1], 90)
    /\ IsPercentileBin(selected[1], 110)

\* C30: _percentile(counts, p) returns the centre of the first bin whose
\* cumulative count fraction is at least p / 100; the selected bin lies in
\* 0..nBins - 1, and it is the last bin when no cumulative fraction reaches
\* p / 100, which is so when all counts are zero.
C30_PercentileBin ==
    mesh_call = "_percentile" =>
        /\ Len(selected) = 1
        /\ selected[1] \in 0..(Len(values) - 1)
        /\ IsPercentileBin(selected[1], 2 * percent)
        /\ interval = <<Centre(selected[1])>>
        /\ Total(values) = 0 => selected[1] = Len(values) - 1
        /\ (\A a \in 0..(Len(values) - 1) : ~FractionAtLeast(a, 2 * percent)) =>
               selected[1] = Len(values) - 1

\* C30 witness: a percentile beyond every cumulative fraction of counts that
\* are not all zero has been asked for, on a mesh of MaxBins bins.
C30_Witness ==
    /\ mesh_call = "_percentile"
    /\ Len(values) = MaxBins
    /\ Total(values) > 0
    /\ percent > 100
    /\ selected = <<MaxBins - 1>>

=============================================================================
